---- MODULE Spec2Model ----
(***************************************************************************)
(* A model of the Mafia game orchestrator (game_orchestrator.py) and of    *)
(* the game state it drives (game_state.py).  One run of play_game is a    *)
(* behaviour: night phase, win check, day phase (discussion, voting,       *)
(* defense, final voting), win check, next round.  The decisions of the    *)
(* agents (the LLM replies) are the nondeterministic inputs.               *)
(***************************************************************************)
EXTENDS Integers, Sequences, FiniteSets, TLC

(***************************************************************************)
(* Bounds of the model and constants of the program.                       *)
(***************************************************************************)
\* number of participants of a modelled game (the first NumPlayers names)
NumPlayers == 4
\* number of participants of the states the win evaluator is applied to
WinPlayers == 6
\* the run is cut off when round_number would exceed MaxRound
MaxRound == 3
\* the number of steps of a run in which the LLM answers; in every other
\* step each request fails (no night decision, nobody speaks, empty target)
MaxAnswers == 3
\* GameOrchestrator(num_mafia=...): size of the killer faction
num_mafia == 2
\* GameOrchestrator(max_discussion_rounds=...)
max_discussion_rounds == 2
\* while voting_round <= 3
MaxVotingRounds == 3
\* consecutive_silent_rounds < 3
MaxSilentRounds == 3
\* number of participants of a discussion phase that is run on its own
DiscPlayers == 3
\* the urgencies 1..MaxUrgency of the replies of such a discussion phase
MaxUrgency == 2
\* how often a participant has spoken at most when such a phase is entered
MaxSpoken == 2

\* AGENT_PERSONALITIES.keys(), in insertion order
player_names ==
  <<"Miranda", "Victor", "Elena", "Rosa", "Sam", "Zoe", "Katherine", "Boris">>

\* Python's None, and the verdict "no winner yet" of check_win_condition
None == "None"
\* a name that no participant has (a reply naming nobody of the game)
Nobody == "Nobody"
\* a reply that carries no 'target' (error dict, unparseable JSON)
NoDecision == "NoDecision"

\* class Role
Role == {"mafia", "doctor", "detective", "villager"}

\* class GamePhase
GamePhase ==
  {"night", "day_discussion", "day_voting", "day_defense",
   "day_final_voting", "game_over"}

(***************************************************************************)
(* Sequence helpers.                                                       *)
(***************************************************************************)
Range(s) == {s[i] : i \in 1..Len(s)}

\* list.remove(x): drops the first occurrence of x (x must occur)
Remove(s, x) ==
  LET i == CHOOSE k \in 1..Len(s) : s[k] = x /\ \A j \in 1..(k - 1) : s[j] # x
  IN  SubSeq(s, 1, i - 1) \o SubSeq(s, i + 1, Len(s))

\* [x for x in s if x in S]
Filter(s, S) ==
  LET F[i \in 0..Len(s)] ==
        IF i = 0 THEN <<>>
        ELSE IF s[i] \in S THEN Append(F[i - 1], s[i]) ELSE F[i - 1]
  IN  F[Len(s)]

VARIABLES
  players,              \* GameState.players: the names, in creation order
  role,                 \* Player.role, by name
  is_alive,             \* Player.is_alive, by name
  alive_players,        \* GameState.alive_players
  dead_players,         \* GameState.dead_players
  elimination_history,  \* GameState.elimination_history
  phase,                \* GameState.phase
  round_number,         \* GameState.round_number
  winner,               \* GameState.winner
  mafia_target,         \* GameState.mafia_target
  doctor_save,          \* GameState.doctor_save
  detective_check,      \* GameState.detective_check
  detective_results,    \* GameState.detective_results: name -> role found
  discussion_messages,  \* GameState.discussion_messages: <<speaker, round>>
  votes,                \* GameState.votes: voter -> target
  vote_counts,          \* GameState.vote_counts: target -> count
  suspects_on_trial,    \* GameState.suspects_on_trial
  voting_history,       \* GameState.voting_history
  speaking_counts,      \* GameOrchestrator.speaking_counts
  pc,                   \* position of play_game
  check_result,         \* the local `winner` of the last win check
  voting_round,         \* local of _run_voting_phase
  current_voting_round, \* local of _run_voting_phase: the sub-round's record
  suspect,              \* the trial subject of the sub-round
  total_rounds,         \* local of _run_discussion_phase
  consecutive_silent_rounds, \* local of _run_discussion_phase
  announced,            \* what _player_announce printed since the night began
  answers,              \* the steps so far in which the LLM answered
  replies,              \* the replies handed to a handler that is run on its
                        \* own; a game draws its replies step by step instead
  future_to_agent,      \* local of _run_discussion_phase: the agents whose
                        \* request is submitted and not yet completed
  agent_responses       \* local of _run_discussion_phase: the agents whose
                        \* response was collected, in completion order

vars ==
  <<players, role, is_alive, alive_players, dead_players, elimination_history,
    phase, round_number, winner, mafia_target, doctor_save, detective_check,
    detective_results, discussion_messages, votes, vote_counts,
    suspects_on_trial, voting_history, speaking_counts, pc, check_result,
    voting_round, current_voting_round, suspect, total_rounds,
    consecutive_silent_rounds, announced, answers, replies,
    future_to_agent, agent_responses>>

(***************************************************************************)
(* game_state.py                                                           *)
(***************************************************************************)
\* GameState.get_alive_players (names)
get_alive_players == Filter(players, {p \in Range(players) : is_alive[p]})

\* a slip of the faction count: the alive flag is not consulted
get_mafia_players_all ==
  Filter(players, {p \in Range(players) : role[p] = "mafia"})

\* GameState.get_mafia_players (names)
get_mafia_players ==
  Filter(players, {p \in Range(players) : role[p] = "mafia" /\ is_alive[p]})

\* GameState.get_village_players (names)
get_village_players ==
  Filter(players, {p \in Range(players) : role[p] # "mafia" /\ is_alive[p]})

\* a slip of the evaluator: the majority test compares with >= instead of >
check_win_condition_ge ==
  LET mafia_alive == Len(get_mafia_players)
      village_alive == Len(get_village_players)
  IN  IF mafia_alive = 0 THEN "village"
      ELSE IF mafia_alive >= village_alive THEN "mafia"
      ELSE None

\* a slip of the evaluator: one killer facing the doctor is no verdict
check_win_condition_no_duel ==
  LET mafia_alive == Len(get_mafia_players)
      village_alive == Len(get_village_players)
      total_alive == mafia_alive + village_alive
      village_players == get_village_players
      has_doctor == \E i \in 1..Len(village_players) :
                      role[village_players[i]] = "doctor"
  IN  IF mafia_alive = 0 THEN "village"
      ELSE IF mafia_alive > village_alive THEN "mafia"
      ELSE IF mafia_alive = village_alive THEN
        IF total_alive = 2 THEN
          IF Len(village_players) = 1 THEN
            IF role[village_players[1]] = "doctor" THEN None ELSE "mafia"
          ELSE None
        ELSE IF total_alive = 4 /\ mafia_alive = 2 THEN
          IF ~has_doctor THEN "mafia" ELSE None
        ELSE None
      ELSE None

\* GameState.check_win_condition
check_win_condition ==
  LET mafia_alive == Len(get_mafia_players)
      village_alive == Len(get_village_players)
      total_alive == mafia_alive + village_alive
      village_players == get_village_players
      has_doctor == \E i \in 1..Len(village_players) :
                      role[village_players[i]] = "doctor"
  IN  IF mafia_alive = 0 THEN "village"
      ELSE IF mafia_alive > village_alive THEN "mafia"
      ELSE IF mafia_alive = village_alive THEN
        IF total_alive = 2 THEN
          IF Len(village_players) = 1 THEN
            IF role[village_players[1]] = "doctor" THEN "tie" ELSE "mafia"
          ELSE None
        ELSE IF total_alive = 4 /\ mafia_alive = 2 THEN
          IF ~has_doctor THEN "mafia" ELSE None
        ELSE None
      ELSE None

(***************************************************************************)
(* Setup: GameOrchestrator.__init__ and initialize_game.                   *)
(***************************************************************************)
\* the first n names of AGENT_PERSONALITIES
Names(n) == SubSeq(player_names, 1, n)

\* the outcomes of random.shuffle(roles): nm killers, one doctor, one
\* detective, the rest villagers, in any order over the names
RoleAssignments(names, nm) ==
  {r \in [Range(names) -> Role] :
     /\ Cardinality({p \in Range(names) : r[p] = "mafia"}) = nm
     /\ Cardinality({p \in Range(names) : r[p] = "doctor"}) = 1
     /\ Cardinality({p \in Range(names) : r[p] = "detective"}) = 1}

\* initialize_game: roles = ["mafia"] * num_mafia + ["doctor", "detective"] +
\* ["villager"] * (total_players - num_mafia - 2)
role_list(total_players, nm) ==
  [i \in 1..total_players |->
     IF i <= nm THEN "mafia"
     ELSE IF i = nm + 1 THEN "doctor"
     ELSE IF i = nm + 2 THEN "detective"
     ELSE "villager"]

\* the outcomes of random.shuffle(roles) that a game is started from: the
\* rotations of the list, zipped with the names
Shuffles(names, nm) ==
  {[p \in Range(names) |->
      LET i == CHOOSE j \in 1..Len(names) : names[j] = p
      IN  role_list(Len(names), nm)[((i - 1 + k) % Len(names)) + 1]] :
     k \in 0..(Len(names) - 1)}

\* the empty dict
EmptyMap == [x \in {} |-> None]

\* no sub-round is in progress
NoVotingRound ==
  [round |-> 0, voting_round |-> 0, votes |-> 0, final_votes |-> 0,
   trial_candidate |-> None, tied_candidates |-> {}, defense |-> None,
   eliminated |-> None]

\* GameState() defaults and the orchestrator's fields, for the given
\* players; the locals of play_game are unset
initialize_game(names, r) ==
  /\ players = names
  /\ role = r
  /\ is_alive = [p \in Range(names) |-> TRUE]
  /\ alive_players = names
  /\ dead_players = <<>>
  /\ elimination_history = <<>>
  /\ phase = "night"
  /\ round_number = 1
  /\ winner = None
  /\ mafia_target = None
  /\ doctor_save = None
  /\ detective_check = None
  /\ detective_results = EmptyMap
  /\ discussion_messages = <<>>
  /\ votes = EmptyMap
  /\ vote_counts = EmptyMap
  /\ suspects_on_trial = {}
  /\ voting_history = <<>>
  /\ speaking_counts = EmptyMap
  /\ check_result = None
  /\ voting_round = 0
  /\ current_voting_round = NoVotingRound
  /\ suspect = None
  /\ total_rounds = 0
  /\ consecutive_silent_rounds = 0
  /\ announced = <<>>
  /\ answers = 0
  /\ replies = EmptyMap
  /\ future_to_agent = {}
  /\ agent_responses = <<>>

(***************************************************************************)
(* The win evaluator as a pure function: it is applied to every assignment *)
(* of alive flags of every role assignment of WinPlayers participants.     *)
(***************************************************************************)
InitWin ==
  \E nm \in 1..(WinPlayers - 2) :
    \E r \in RoleAssignments(Names(WinPlayers), nm) :
      \E a \in [Range(Names(WinPlayers)) -> BOOLEAN] :
        /\ players = Names(WinPlayers)
        /\ role = r
        /\ is_alive = a
        /\ alive_players = Filter(Names(WinPlayers), {p \in Range(Names(WinPlayers)) : a[p]})
        /\ dead_players = Filter(Names(WinPlayers), {p \in Range(Names(WinPlayers)) : ~a[p]})
        /\ elimination_history = dead_players
        /\ phase = "night"
        /\ round_number = 1
        /\ winner = None
        /\ mafia_target = None
        /\ doctor_save = None
        /\ detective_check = None
        /\ detective_results = EmptyMap
        /\ discussion_messages = <<>>
        /\ votes = EmptyMap
        /\ vote_counts = EmptyMap
        /\ suspects_on_trial = {}
        /\ voting_history = <<>>
        /\ speaking_counts = EmptyMap
        /\ check_result = None
        /\ voting_round = 0
        /\ current_voting_round = NoVotingRound
        /\ suspect = None
        /\ total_rounds = 0
        /\ consecutive_silent_rounds = 0
        /\ announced = <<>>
        /\ answers = 0
        /\ replies = EmptyMap
        /\ future_to_agent = {}
        /\ agent_responses = <<>>
        /\ pc = "evaluate"

\* a slip of the evaluator: the call itself stores its verdict in winner
EvaluateWin_stores ==
  /\ pc = "evaluate"
  /\ check_result' = check_win_condition
  /\ winner' = check_win_condition
  /\ pc' = "evaluated"
  /\ UNCHANGED <<players, role, is_alive, alive_players, dead_players,
                 elimination_history, phase, round_number,
                 mafia_target, doctor_save, detective_check,
                 detective_results, discussion_messages, votes, vote_counts,
                 suspects_on_trial, voting_history, speaking_counts,
                 voting_round, current_voting_round, suspect, total_rounds,
                 consecutive_silent_rounds, announced, answers, replies,
                 future_to_agent, agent_responses>>

\* winner = self.game_state.check_win_condition()
EvaluateWin ==
  /\ pc = "evaluate"
  /\ check_result' = check_win_condition
  /\ pc' = "evaluated"
  /\ UNCHANGED <<players, role, is_alive, alive_players, dead_players,
                 elimination_history, phase, round_number, winner,
                 mafia_target, doctor_save, detective_check,
                 detective_results, discussion_messages, votes, vote_counts,
                 suspects_on_trial, voting_history, speaking_counts,
                 voting_round, current_voting_round, suspect, total_rounds,
                 consecutive_silent_rounds, announced, answers, replies,
                 future_to_agent, agent_responses>>

NextWin == EvaluateWin

WinSpec == InitWin /\ [][NextWin]_vars

\* K and O of the specification, counted on the flags themselves
AliveKillers == Cardinality({p \in Range(players) : is_alive[p] /\ role[p] = "mafia"})

AliveOthers == Cardinality({p \in Range(players) : is_alive[p] /\ role[p] # "mafia"})

ProtectorAlive == \E p \in Range(players) : is_alive[p] /\ role[p] = "doctor"

\* C2: for every assignment of alive flags the evaluator returns village
\* when K = 0, mafia when K > O, and none when 0 < K < O.
C2_MajorityVerdicts ==
  pc = "evaluated" =>
    /\ (AliveKillers = 0 => check_result = "village")
    /\ (AliveKillers > AliveOthers => check_result = "mafia")
    /\ (0 < AliveKillers /\ AliveKillers < AliveOthers => check_result = None)

C2_Witness ==
  /\ pc = "evaluated"
  /\ AliveKillers = 2 /\ AliveOthers = 1
  /\ check_result = "mafia"

playerVars == <<players, role, replies, future_to_agent, agent_responses>>

lifeVars == <<is_alive, alive_players, dead_players, elimination_history>>

nightVars == <<mafia_target, doctor_save, detective_check, detective_results>>

voteVars ==
  <<votes, vote_counts, suspects_on_trial, voting_history, voting_round,
    current_voting_round, suspect>>

discVars ==
  <<discussion_messages, speaking_counts, total_rounds,
    consecutive_silent_rounds>>

\* initialize_game, then play_game is entered
Init ==
  /\ \E r \in Shuffles(Names(NumPlayers), num_mafia) :
       initialize_game(Names(NumPlayers), r)
  /\ pc = "loop"

\* GameState.mafia_members
mafia_members == Filter(players, {p \in Range(players) : role[p] = "mafia"})

\* the first agent of agents.values() with the role r that is alive, or None
role_agent(r) ==
  LET l == Filter(players, {p \in Range(players) :
                              role[p] = r /\ p \in Range(alive_players)})
  IN  IF l = <<>> THEN None ELSE l[1]

\* a slip of the reset: the protector's target is left as it was
RunNightPhase_keeps_save ==
  /\ pc = "loop"
  /\ winner = None
  /\ phase' = "night"
  /\ mafia_target' = None
  /\ detective_check' = None
  /\ announced' = <<>>
  /\ pc' = "night_mafia"
  /\ UNCHANGED <<playerVars, lifeVars, doctor_save, detective_results,
                 voteVars, discVars, round_number, winner, check_result,
                 answers>>

\* play_game: `while not self.game_state.winner`, then the head of
\* _run_night_phase: the phase and the three night fields are reset
RunNightPhase ==
  /\ pc = "loop"
  /\ winner = None
  /\ phase' = "night"
  /\ mafia_target' = None
  /\ doctor_save' = None
  /\ detective_check' = None
  /\ announced' = <<>>
  /\ pc' = "night_mafia"
  /\ UNCHANGED <<playerVars, lifeVars, detective_results, voteVars, discVars,
                 round_number, winner, check_result, answers>>

\* the LLM answers in at most MaxAnswers steps of a run
Answered(answered) ==
  IF answered
  THEN answers < MaxAnswers /\ answers' = answers + 1
  ELSE UNCHANGED answers

\* the names a killer's reply may carry: any participant, alive or not, of
\* any faction, and a name of no participant
MafiaReplies == Range(players) \cup {Nobody, NoDecision}

\* a slip of the consensus: among equal counts the target proposed last wins
most_common_last(targets) ==
  LET count(t) == Cardinality({i \in 1..Len(targets) : targets[i] = t})
      first(t) == CHOOSE i \in 1..Len(targets) :
                    targets[i] = t /\ \A j \in 1..(i - 1) : targets[j] # t
  IN  CHOOSE t \in Range(targets) :
        \A u \in Range(targets) :
          \/ count(u) < count(t)
          \/ (count(u) = count(t) /\ first(u) <= first(t))

\* Counter(targets).most_common(1)[0][0]: a highest count, the earliest
\* first occurrence among equals
most_common(targets) ==
  LET count(t) == Cardinality({i \in 1..Len(targets) : targets[i] = t})
      first(t) == CHOOSE i \in 1..Len(targets) :
                    targets[i] = t /\ \A j \in 1..(i - 1) : targets[j] # t
  IN  CHOOSE t \in Range(targets) :
        \A u \in Range(targets) :
          \/ count(u) < count(t)
          \/ (count(u) = count(t) /\ first(t) <= first(u))

\* _mafia_night_action, for a set of reply profiles of the alive killers
MafiaNightActionOf(Replies) ==
  /\ pc = "night_mafia"
  /\ LET mafia_agents == Filter(mafia_members, Range(alive_players))
         alive_non_mafia == Filter(get_alive_players,
                                   {p \in Range(players) : role[p] # "mafia"})
     IN  \E reply \in Replies :
           LET deciders == Filter(mafia_agents,
                             {a \in Range(mafia_agents) :
                                alive_non_mafia # <<>> /\ reply[a] # NoDecision})
               targets == [i \in 1..Len(deciders) |-> reply[deciders[i]]]
           IN  /\ Answered(\E a \in Range(mafia_agents) : reply[a] # NoDecision)
               /\ mafia_target' =
                    IF targets = <<>> THEN mafia_target
                    ELSE most_common(targets)
  /\ pc' = "night_doctor"
  /\ UNCHANGED <<playerVars, lifeVars, doctor_save, detective_check,
                 detective_results, voteVars, discVars, phase, round_number,
                 winner, check_result, announced>>

\* _mafia_night_action in a game: every killer's reply is drawn
MafiaNightAction ==
  MafiaNightActionOf(
    [Range(Filter(mafia_members, Range(alive_players))) -> MafiaReplies])

\* the first element of a list, if any
Head1(s) == IF s = <<>> THEN {} ELSE {s[1]}

\* the names the doctor's reply may carry in a game: its own, the first of
\* the alive it is offered, the first of the eliminated
DoctorReplies ==
  {p \in Range(players) : role[p] = "doctor"}
    \cup Head1(Filter(get_alive_players,
                      {p \in Range(players) : role[p] # "doctor"}))
    \cup Head1(dead_players)
    \cup {NoDecision}

\* _doctor_night_action
DoctorNightAction ==
  /\ pc = "night_doctor"
  /\ LET doctor == role_agent("doctor")
         others == Filter(get_alive_players, Range(players) \ {doctor})
     IN  \E reply \in DoctorReplies :
           /\ Answered(reply # NoDecision)
           /\ doctor_save' =
             IF doctor = None \/ others = <<>> \/ reply = NoDecision
             THEN doctor_save ELSE reply
  /\ pc' = "night_detective"
  /\ UNCHANGED <<playerVars, lifeVars, mafia_target, detective_check,
                 detective_results, voteVars, discVars, phase, round_number,
                 winner, check_result, announced>>

\* the names the detective's reply may carry in a game: the first of the
\* alive it is offered, the first it has a finding of, the first of the
\* eliminated, a name of no participant
DetectiveReplies ==
  Head1(Filter(get_alive_players,
               {p \in Range(players) :
                  role[p] # "detective" /\ p \notin DOMAIN detective_results}))
    \cup Head1(Filter(players, DOMAIN detective_results))
    \cup Head1(dead_players)
    \cup {Nobody, NoDecision}

\* a slip of the store: the dict is replaced by one holding the new entry
Put_fresh(m, k, v) == [x \in {k} |-> v]

\* dict[key] = value
Put(m, k, v) == [x \in DOMAIN m \cup {k} |-> IF x = k THEN v ELSE m[x]]

\* _detective_night_action
DetectiveNightAction ==
  /\ pc = "night_detective"
  /\ LET detective == role_agent("detective")
         uninvestigated ==
           Filter(get_alive_players,
                  Range(players) \ ({detective} \cup DOMAIN detective_results))
     IN  \E reply \in DetectiveReplies :
           /\ Answered(reply # NoDecision)
           /\ IF detective = None \/ uninvestigated = <<>> \/ reply = NoDecision
              THEN UNCHANGED <<detective_check, detective_results>>
              ELSE /\ detective_check' = reply
                   /\ detective_results' =
                        IF reply \in Range(players)
                        THEN Put(detective_results, reply, role[reply])
                        ELSE detective_results
  /\ pc' = "night_resolve"
  /\ UNCHANGED <<playerVars, lifeVars, mafia_target, doctor_save, voteVars,
                 discVars, phase, round_number, winner, check_result,
                 announced>>

\* _eliminate_player raises ValueError (list.remove of a name that is not in
\* alive_players) for a participant that is no longer alive
eliminate_raises(name) ==
  name \in Range(players) /\ name \notin Range(alive_players)

\* a slip of _eliminate_player: the name is appended to the eliminated list
\* but stays in the alive list
eliminate_player_keep(name) ==
  IF name \notin Range(players) THEN UNCHANGED lifeVars
  ELSE /\ is_alive' = [is_alive EXCEPT ![name] = FALSE]
       /\ IF name \in Range(alive_players)
          THEN /\ alive_players' = alive_players
               /\ dead_players' = Append(dead_players, name)
               /\ elimination_history' = Append(elimination_history, name)
          ELSE UNCHANGED <<alive_players, dead_players, elimination_history>>

\* a slip of the elimination: the history is not written
eliminate_player_no_history(name) ==
  IF name \notin Range(players) THEN UNCHANGED lifeVars
  ELSE /\ is_alive' = [is_alive EXCEPT ![name] = FALSE]
       /\ UNCHANGED elimination_history
       /\ IF name \in Range(alive_players)
          THEN /\ alive_players' = Remove(alive_players, name)
               /\ dead_players' = Append(dead_players, name)
          ELSE UNCHANGED <<alive_players, dead_players>>

\* _eliminate_player: the effect on the four records of liveness; a name of
\* no participant changes nothing, a raise leaves the lists as they were
eliminate_player(name) ==
  IF name \notin Range(players) THEN UNCHANGED lifeVars
  ELSE /\ is_alive' = [is_alive EXCEPT ![name] = FALSE]
       /\ IF name \in Range(alive_players)
          THEN /\ alive_players' = Remove(alive_players, name)
               /\ dead_players' = Append(dead_players, name)
               /\ elimination_history' = Append(elimination_history, name)
          ELSE UNCHANGED <<alive_players, dead_players, elimination_history>>

\* a line printed by _player_announce
Announcement(kind, name) == [kind |-> kind, name |-> name]

\* a slip of _resolve_night_actions: the doctor's save is not consulted
ResolveNightActions_no_save ==
  /\ pc = "night_resolve"
  /\ IF mafia_target # None
     THEN /\ eliminate_player(mafia_target)
          /\ IF eliminate_raises(mafia_target)
             THEN /\ pc' = "crashed"
                  /\ UNCHANGED announced
             ELSE /\ pc' = "check_night"
                  /\ announced' =
                       Append(announced,
                              Announcement("night_eliminated", mafia_target))
     ELSE /\ pc' = "check_night"
          /\ UNCHANGED <<lifeVars, announced>>
  /\ UNCHANGED <<playerVars, nightVars, voteVars, discVars, phase,
                 round_number, winner, check_result, answers>>

\* _resolve_night_actions
ResolveNightActions ==
  /\ pc = "night_resolve"
  /\ IF mafia_target # None
     THEN IF mafia_target = doctor_save
          THEN /\ announced' =
                    Append(announced, Announcement("no_one_eliminated", None))
               /\ pc' = "check_night"
               /\ UNCHANGED lifeVars
          ELSE /\ eliminate_player(mafia_target)
               /\ IF eliminate_raises(mafia_target)
                  THEN /\ pc' = "crashed"
                       /\ UNCHANGED announced
                  ELSE /\ pc' = "check_night"
                       /\ announced' =
                            Append(announced,
                                   Announcement("night_eliminated", mafia_target))
     ELSE /\ pc' = "check_night"
          /\ UNCHANGED <<lifeVars, announced>>
  /\ UNCHANGED <<playerVars, nightVars, voteVars, discVars, phase,
                 round_number, winner, check_result, answers>>

\* a slip of play_game: the winner is recorded after the night but the loop
\* is not left
CheckAfterNight_continue ==
  /\ pc = "check_night"
  /\ check_result' = check_win_condition
  /\ winner' = (IF check_result' # None THEN check_result' ELSE winner)
  /\ pc' = "day_start"
  /\ UNCHANGED <<playerVars, lifeVars, nightVars, voteVars, discVars, phase,
                 round_number, announced, answers>>

\* play_game: the win check after the night
CheckAfterNight ==
  /\ pc = "check_night"
  /\ check_result' = check_win_condition
  /\ IF check_result' # None
     THEN /\ winner' = check_result'
          /\ pc' = "announce"
     ELSE /\ pc' = "day_start"
          /\ UNCHANGED winner
  /\ UNCHANGED <<playerVars, lifeVars, nightVars, voteVars, discVars, phase,
                 round_number, announced, answers>>

\* _run_day_phase up to the first discussion round: the day-start win check,
\* _announce_day_start, and the head of _run_discussion_phase
RunDayPhase ==
  /\ pc = "day_start"
  /\ phase' = "day_discussion"
  /\ check_result' = check_win_condition
  /\ IF check_result' # None
     THEN /\ winner' = check_result'
          /\ pc' = "check_day"
          /\ UNCHANGED <<announced, discVars>>
     ELSE /\ announced' =
               (IF elimination_history # <<>>
                THEN Append(Append(announced, Announcement("day_begins", None)),
                            Announcement("last_night_eliminated",
                              elimination_history[Len(elimination_history)]))
                ELSE Append(announced, Announcement("day_begins", None)))
          /\ speaking_counts' = [n \in Range(alive_players) |-> 0]
          /\ total_rounds' = 0
          /\ consecutive_silent_rounds' = 0
          /\ pc' = "discussion"
          /\ UNCHANGED <<winner, discussion_messages>>
  /\ UNCHANGED <<playerVars, lifeVars, nightVars, voteVars, round_number,
                 answers>>

\* a slip of the budget: one round more than rounds x participants
max_total_rounds_more == max_discussion_rounds * Len(alive_players) + 1

\* max_total_rounds = self.max_discussion_rounds * len(alive_agents)
max_total_rounds == max_discussion_rounds * Len(alive_players)

\* a DiscussionResponse
Response(speak, urgency) == [ok |-> TRUE, speak |-> speak, urgency |-> urgency]

\* the request raised: get_agent_response returns (agent, None)
NoResponse == [ok |-> FALSE, speak |-> FALSE, urgency |-> 0]

\* a slip of the penalty: each previous speech costs 1 instead of 0.5
adjusted_urgency2_whole(urgency, speak_count) ==
  IF 2 * urgency - 2 * speak_count > 2
  THEN 2 * urgency - 2 * speak_count ELSE 2

\* twice the adjusted urgency max(1, urgency - 0.5 * speak_count)
adjusted_urgency2(urgency, speak_count) ==
  IF 2 * urgency - speak_count > 2 THEN 2 * urgency - speak_count ELSE 2

\* generate_structured_response when the LLM fails: the default instance
FailedResponse == Response(FALSE, 0)

\* the replies of one discussion round in a game: every request fails, or
\* the first alive participant alone wants to speak
GameDiscussionReplies ==
  LET quiet == [a \in Range(alive_players) |-> FailedResponse]
  IN  {quiet, [quiet EXCEPT ![alive_players[1]] = Response(TRUE, 3)]}

\* one iteration of the loop of _run_discussion_phase, for a set of reply
\* profiles
DiscussionRoundOf(Replies) ==
  /\ pc = "discussion"
  /\ total_rounds < max_total_rounds
  /\ consecutive_silent_rounds < MaxSilentRounds
  /\ \E reply \in Replies :
       LET speaking_agents ==
             {a \in Range(alive_players) : reply[a].ok /\ reply[a].speak}
           adj(a) == adjusted_urgency2(reply[a].urgency, speaking_counts[a])
           top == {a \in speaking_agents :
                     \A b \in speaking_agents : adj(b) <= adj(a)}
       IN  /\ Answered(speaking_agents # {})
           /\ IF speaking_agents = {}
              THEN /\ consecutive_silent_rounds' = consecutive_silent_rounds + 1
                   /\ announced' =
                        (IF consecutive_silent_rounds' < MaxSilentRounds
                         THEN Append(announced, Announcement("silence", None))
                         ELSE announced)
                   /\ UNCHANGED <<discussion_messages, speaking_counts,
                                  total_rounds>>
              ELSE \E agent \in top :
                     /\ consecutive_silent_rounds' = 0
                     /\ speaking_counts' =
                          [speaking_counts EXCEPT ![agent] = @ + 1]
                     /\ discussion_messages' =
                          Append(discussion_messages,
                                 [player_name |-> agent,
                                  round_number |-> round_number])
                     /\ total_rounds' = total_rounds + 1
                     /\ announced' =
                          Append(announced, Announcement("says", agent))
  /\ UNCHANGED <<playerVars, lifeVars, nightVars, voteVars, phase,
                 round_number, winner, pc, check_result>>

DiscussionRound == DiscussionRoundOf(GameDiscussionReplies)

\* GameState.reset_votes (votes_received is not modelled)
reset_votes ==
  /\ votes' = EmptyMap
  /\ vote_counts' = EmptyMap

\* a slip of the loop test: two silent rounds in a row end the discussion
BeginVoting_two_silent ==
  /\ pc = "discussion"
  /\ ~(total_rounds < max_total_rounds
       /\ consecutive_silent_rounds < MaxSilentRounds - 1)
  /\ phase' = "day_voting"
  /\ reset_votes
  /\ voting_round' = 1
  /\ total_rounds' = 0
  /\ consecutive_silent_rounds' = 0
  /\ pc' = "voting"
  /\ UNCHANGED <<playerVars, lifeVars, nightVars, suspects_on_trial,
                 voting_history, current_voting_round, suspect,
                 discussion_messages, speaking_counts, round_number, winner,
                 check_result, announced, answers>>

\* the loop of _run_discussion_phase ends; head of _run_voting_phase
BeginVoting ==
  /\ pc = "discussion"
  /\ ~(total_rounds < max_total_rounds
       /\ consecutive_silent_rounds < MaxSilentRounds)
  /\ phase' = "day_voting"
  /\ reset_votes
  /\ voting_round' = 1
  /\ total_rounds' = 0
  /\ consecutive_silent_rounds' = 0
  /\ pc' = "voting"
  /\ UNCHANGED <<playerVars, lifeVars, nightVars, suspects_on_trial,
                 voting_history, current_voting_round, suspect,
                 discussion_messages, speaking_counts, round_number, winner,
                 check_result, announced, answers>>

(***************************************************************************)
(* Votes.  A returned target text is modelled by what the code asks of it: *)
(* whether it is exactly a name (`in candidates`, `== agent_name`) and     *)
(* which names it contains, ignoring case (`candidate.lower() in           *)
(* target.lower()`).  No name of AGENT_PERSONALITIES contains another.     *)
(***************************************************************************)
\* the text that is exactly the name n
Exact(n) == [exact |-> TRUE, names |-> {n}]

\* a text that is no name and contains the names of S ("" for S = {})
Loose(S) == [exact |-> FALSE, names |-> S]

\* text in candidates
InCandidates(text, candidates) ==
  text.exact /\ text.names \subseteq Range(candidates)

\* the first candidate whose lower-cased name the text contains, else the
\* first candidate: the `for candidate in candidates` loops
closest_match(text, candidates) ==
  LET hits == {i \in 1..Len(candidates) : candidates[i] \in text.names}
  IN  IF hits = {} THEN candidates[1]
      ELSE candidates[CHOOSE i \in hits : \A j \in hits : i <= j]

\* a slip of vote(): the matching loop has no `break`, the last candidate
\* whose name the text contains is taken
agent_vote_no_break(text, candidates) ==
  IF InCandidates(text, candidates)
  THEN CHOOSE n \in text.names : TRUE
  ELSE LET hits == {i \in 1..Len(candidates) : candidates[i] \in text.names}
       IN  IF hits = {} THEN candidates[1]
           ELSE candidates[CHOOSE i \in hits : \A j \in hits : j <= i]

\* the agents' vote(): the target it returns for the text the LLM gave
agent_vote(text, candidates) ==
  IF InCandidates(text, candidates)
  THEN CHOOSE n \in text.names : TRUE
  ELSE closest_match(text, candidates)

\* _run_voting_phase: the target tallied for a voter in an initial vote
\* (None: no vote is recorded)
initial_vote_target(agent_name, text, candidates) ==
  LET vote_target == agent_vote(text, candidates)
  IN  IF vote_target \in Range(candidates) THEN vote_target
      ELSE IF vote_target = agent_name
           THEN (IF candidates # <<>> THEN candidates[1] ELSE None)
           ELSE None

\* a slip of the final vote: the returned target is tallied as it is when it
\* names an alive participant, the voter included
final_vote_target_unchecked(agent_name, text, candidates) ==
  IF text.exact /\ text.names \subseteq (Range(candidates) \cup {agent_name})
  THEN CHOOSE n \in text.names : TRUE
  ELSE closest_match(text, candidates)

\* _run_final_voting: the target tallied for a voter in a final vote
final_vote_target(agent_name, text, candidates) ==
  IF InCandidates(text, candidates)
  THEN CHOOSE n \in text.names : TRUE
  ELSE IF text = Exact(agent_name)
       THEN (IF candidates # <<>> THEN candidates[1] ELSE None)
       ELSE (IF candidates # <<>> THEN closest_match(text, candidates)
             ELSE None)

\* candidates = [p for p in alive_players if p != agent_name]
candidates_of(agent_name) ==
  Filter(get_alive_players, Range(players) \ {agent_name})

\* generate_structured_response when the LLM fails: target ""
FailedVote == Loose({})

\* every voter's request fails
FailedVotes == [v \in Range(get_alive_players) |-> FailedVote]

\* everybody names x, x itself included
VotesAgainst(x) == [v \in Range(get_alive_players) |-> Exact(x)]

\* everybody names the next alive participant, the last one the first
VotesInRing ==
  LET alive == get_alive_players
      index(v) == CHOOSE i \in 1..Len(alive) : alive[i] = v
  IN  [v \in Range(alive) |-> Exact(alive[(index(v) % Len(alive)) + 1])]

\* the vote profiles of a game: every request fails, or the LLM answers and
\* the voters vote in a ring or all name one participant: the first or the
\* second of the alive, or the first of the eliminated
GameVoteReplies ==
  {FailedVotes, VotesInRing}
    \cup {VotesAgainst(x) :
            x \in Range(SubSeq(get_alive_players, 1, 2)) \cup Head1(dead_players)}

\* the vote map and the counts after the for loop over the voters
tally(target) ==
  LET voters == {v \in Range(get_alive_players) : target[v] # None}
  IN  /\ votes' = [v \in voters |-> target[v]]
      /\ vote_counts' =
           [t \in {target[v] : v \in voters} |->
              Cardinality({v \in voters : target[v] = t})]

\* the names with the maximum count of a non-empty count map
max_holders(counts) ==
  {n \in DOMAIN counts : \A m \in DOMAIN counts : counts[m] <= counts[n]}

\* a slip of the record: the number of the sub-round is not kept
VotingRoundRecord_unnumbered(nvotes) ==
  [round |-> round_number, voting_round |-> 1, votes |-> nvotes,
   final_votes |-> 0, trial_candidate |-> None, tied_candidates |-> {},
   defense |-> None, eliminated |-> None]

\* the record of a sub-round (votes and final votes by their number)
VotingRoundRecord(nvotes) ==
  [round |-> round_number, voting_round |-> voting_round, votes |-> nvotes,
   final_votes |-> 0, trial_candidate |-> None, tied_candidates |-> {},
   defense |-> None, eliminated |-> None]

\* _run_voting_phase: `voting_round += 1` and the loop test; after the loop
\* the method returns
next_voting_round ==
  IF voting_round + 1 <= MaxVotingRounds
  THEN /\ voting_round' = voting_round + 1
       /\ pc' = "voting"
  ELSE /\ voting_round' = 0
       /\ pc' = "check_day"

\* _run_voting_phase: the initial vote of a sub-round and its outcome, for
\* the texts that the voters' requests return
InitialVoteOf(Replies) ==
  /\ pc = "voting"
  /\ \E text \in Replies :
       LET target == [v \in Range(get_alive_players) |->
                        initial_vote_target(v, text[v], candidates_of(v))]
       IN  Answered(text # FailedVotes) /\ tally(target)
  /\ IF DOMAIN vote_counts' = {}
     THEN /\ next_voting_round
          /\ current_voting_round' = NoVotingRound
          /\ UNCHANGED <<suspects_on_trial, voting_history, suspect>>
     ELSE LET suspects == max_holders(vote_counts')
              rec == VotingRoundRecord(Cardinality(DOMAIN votes'))
          IN  /\ suspects_on_trial' = suspects
              /\ IF Cardinality(suspects) = 1
                 THEN /\ suspect' = CHOOSE n \in suspects : TRUE
                      /\ current_voting_round' =
                           [rec EXCEPT !.trial_candidate = suspect']
                      /\ pc' = "defense"
                      /\ UNCHANGED <<voting_history, voting_round>>
                 ELSE /\ voting_history' =
                           Append(voting_history,
                                  [rec EXCEPT !.tied_candidates = suspects])
                      /\ current_voting_round' = NoVotingRound
                      /\ UNCHANGED suspect
                      /\ IF voting_round = MaxVotingRounds
                         THEN /\ voting_round' = 0
                              /\ pc' = "check_day"
                         ELSE next_voting_round
  /\ UNCHANGED <<playerVars, lifeVars, nightVars, discVars, phase,
                 round_number, winner, check_result, announced>>

\* the initial vote of a game
InitialVote == InitialVoteOf(GameVoteReplies)

\* _run_defense_phase
DefensePhase ==
  /\ pc = "defense"
  /\ phase' = "day_defense"
  /\ current_voting_round' = [current_voting_round EXCEPT !.defense = "text"]
  /\ pc' = "final_voting"
  /\ UNCHANGED <<playerVars, lifeVars, nightVars, discVars, votes,
                 vote_counts, suspects_on_trial, voting_history, voting_round,
                 suspect, round_number, winner, check_result, announced,
                 answers>>

\* _run_final_voting, and what _run_voting_phase does with its result, for
\* the texts that the voters' requests return
FinalVotingOf(Replies) ==
  /\ pc = "final_voting"
  /\ phase' = "day_final_voting"
  /\ \E text \in Replies :
       LET target == [v \in Range(get_alive_players) |->
                        final_vote_target(v, text[v], candidates_of(v))]
       IN  Answered(text # FailedVotes) /\ tally(target)
  /\ LET suspects == IF DOMAIN vote_counts' = {} THEN {}
                     ELSE max_holders(vote_counts')
     IN  IF Cardinality(suspects) = 1
         THEN LET eliminated_player == CHOOSE n \in suspects : TRUE
              IN  /\ eliminate_player(eliminated_player)
                  /\ IF eliminate_raises(eliminated_player)
                     THEN /\ pc' = "crashed"
                          /\ UNCHANGED <<voting_history, voting_round>>
                     ELSE /\ voting_history' =
                               Append(voting_history,
                                 [current_voting_round EXCEPT
                                    !.final_votes = Cardinality(DOMAIN votes'),
                                    !.eliminated = eliminated_player])
                          /\ voting_round' = 0
                          /\ pc' = "check_day"
         ELSE /\ next_voting_round
              /\ UNCHANGED <<lifeVars, voting_history>>
  /\ current_voting_round' = NoVotingRound
  /\ suspect' = None
  /\ UNCHANGED <<playerVars, nightVars, discVars, suspects_on_trial,
                 round_number, winner, check_result, announced>>

\* the final vote of a game
FinalVoting == FinalVotingOf(GameVoteReplies)

\* a slip of play_game: no win check after the day
CheckAfterDay_unchecked ==
  /\ pc = "check_day"
  /\ IF round_number < MaxRound
     THEN /\ round_number' = round_number + 1
          /\ pc' = "loop"
     ELSE /\ pc' = "cutoff"
          /\ UNCHANGED round_number
  /\ UNCHANGED <<playerVars, lifeVars, nightVars, voteVars, discVars, phase,
                 winner, check_result, announced, answers>>

\* a slip of play_game: the round is counted before the win check, so also
\* in the cycle that finds a winner
CheckAfterDay_counts_first ==
  /\ pc = "check_day"
  /\ check_result' = check_win_condition
  /\ IF check_result' # None
     THEN /\ winner' = check_result'
          /\ pc' = "announce"
          /\ round_number' = round_number + 1
     ELSE /\ UNCHANGED winner
          /\ IF round_number < MaxRound
             THEN /\ round_number' = round_number + 1
                  /\ pc' = "loop"
             ELSE /\ pc' = "cutoff"
                  /\ UNCHANGED round_number
  /\ UNCHANGED <<playerVars, lifeVars, nightVars, voteVars, discVars, phase,
                 announced, answers>>

\* play_game: the win check after the day, and `round_number += 1`; the
\* model stops at MaxRound
CheckAfterDay ==
  /\ pc = "check_day"
  /\ check_result' = check_win_condition
  /\ IF check_result' # None
     THEN /\ winner' = check_result'
          /\ pc' = "announce"
          /\ UNCHANGED round_number
     ELSE /\ UNCHANGED winner
          /\ IF round_number < MaxRound
             THEN /\ round_number' = round_number + 1
                  /\ pc' = "loop"
             ELSE /\ pc' = "cutoff"
                  /\ UNCHANGED round_number
  /\ UNCHANGED <<playerVars, lifeVars, nightVars, voteVars, discVars, phase,
                 announced, answers>>

\* a slip of the announcement: the winner field is cleared once announced
AnnounceWinner_clears ==
  /\ pc = "announce"
  /\ pc' = "done"
  /\ winner' = None
  /\ UNCHANGED <<playerVars, lifeVars, nightVars, voteVars, discVars, phase,
                 round_number, check_result, announced, answers>>

\* _announce_winner: play_game returns the winner
AnnounceWinner ==
  /\ pc = "announce"
  /\ pc' = "done"
  /\ UNCHANGED <<playerVars, lifeVars, nightVars, voteVars, discVars, phase,
                 round_number, winner, check_result, announced, answers>>

Next ==
  \/ RunNightPhase
  \/ MafiaNightAction
  \/ DoctorNightAction
  \/ DetectiveNightAction
  \/ ResolveNightActions
  \/ CheckAfterNight
  \/ RunDayPhase
  \/ DiscussionRound
  \/ BeginVoting
  \/ InitialVote
  \/ DefensePhase
  \/ FinalVoting
  \/ CheckAfterDay
  \/ AnnounceWinner

Spec == Init /\ [][Next]_vars

(***************************************************************************)
(* Properties of the run.                                                  *)
(***************************************************************************)
\* C1: in every reachable state the alive list and the eliminated list are
\* disjoint, their union is the participant set created at setup, and the
\* total size is constant, whatever targets the decisions returned.
C1_Partition ==
  /\ players = Names(NumPlayers)
  /\ Range(alive_players) \cap Range(dead_players) = {}
  /\ Range(alive_players) \cup Range(dead_players) = Range(players)
  /\ Len(alive_players) + Len(dead_players) = NumPlayers
  /\ \A p \in Range(players) : is_alive[p] <=> p \in Range(alive_players)

\* an elimination, and then in a later night a decision that named the
\* eliminated participant
C1_Witness ==
  /\ dead_players # <<>>
  /\ pc = "crashed"

\* C4, as stated: in every reachable state winner is set iff the evaluator
\* returns non-none on that state, and when set it equals that verdict.
C4_WinnerIffVerdict ==
  /\ (winner # None <=> check_win_condition # None)
  /\ (winner # None => winner = check_win_condition)

\* C4, amended: a set winner always equals the evaluator's verdict on the
\* state, and winner is set iff the verdict is non-none in every state except
\* those between an elimination and the win check that follows it.
C4_WinnerIffVerdictAfterCheck ==
  /\ (winner # None => winner = check_win_condition)
  /\ (pc \notin {"check_night", "check_day"} =>
        (winner # None <=> check_win_condition # None))

C4_Witness ==
  /\ pc = "done"
  /\ winner = "village"
  /\ check_win_condition = "village"

\* C5: once a win check has returned non-none the run only announces the
\* winner: a non-none check after a night or a day sets the winner, leaves
\* round_number alone and leads to the announcement, and from a state with a
\* winner no night, discussion, vote, defense or elimination step is taken.
C5_HaltsOnWin ==
  [][/\ (winner # None =>
           /\ pc' \in {"announce", "done"}
           /\ winner' = winner
           /\ UNCHANGED <<lifeVars, nightVars, voteVars, discVars, phase,
                          round_number, announced, answers>>)
     /\ (pc \in {"check_night", "check_day"} /\ check_result' # None =>
           /\ winner' = check_result'
           /\ pc' = "announce"
           /\ round_number' = round_number)]_vars

\* the killers won in the first night: the phase is still the night's and
\* the round is the first
C5_Witness ==
  /\ pc = "done"
  /\ winner = "mafia"
  /\ phase = "night"
  /\ round_number = 1
  /\ dead_players # <<>>

\* C6: in a night where the killer consensus target equals the protector
\* target no step of the night changes the alive list or the eliminated
\* list, and the resolution announces exactly the fixed "no one was
\* eliminated" line, which names nobody.
C6_SaveCancelsKill ==
  [][/\ (pc \in {"loop", "night_mafia", "night_doctor", "night_detective"} =>
           UNCHANGED lifeVars)
     /\ (pc = "night_resolve" /\ mafia_target # None
           /\ mafia_target = doctor_save =>
           /\ UNCHANGED lifeVars
           /\ announced' = <<Announcement("no_one_eliminated", None)>>)]_vars

\* the save of an alive participant has been resolved
C6_Witness ==
  /\ pc = "check_night"
  /\ mafia_target \in Range(alive_players)
  /\ mafia_target = doctor_save
  /\ announced = <<Announcement("no_one_eliminated", None)>>

\* C7, as stated: in a night where a killer consensus target exists and
\* differs from the protector target, exactly that target moves from alive to
\* eliminated: it was alive, its flag becomes false, it is appended at the end
\* of the eliminated list, and nobody else's status changes.
C7_TargetEliminated ==
  [][pc = "night_resolve" /\ mafia_target # None
       /\ mafia_target # doctor_save =>
       /\ mafia_target \in Range(alive_players)
       /\ is_alive' = [is_alive EXCEPT ![mafia_target] = FALSE]
       /\ alive_players' = Remove(alive_players, mafia_target)
       /\ dead_players' = Append(dead_players, mafia_target)]_vars

\* the texts a vote request may return: exactly a name (of a participant or
\* of nobody), or a text that is no name and contains some names
VoteTexts ==
  {Exact(n) : n \in Range(players) \cup {Nobody}}
    \cup {Loose(S) : S \in SUBSET Range(players)}

\* C8: the vote map never holds an entry whose target is its voter; in an
\* initial and in a final vote no returned text is tallied as a vote for the
\* voter, and the voter's own name is tallied as the first candidate of the
\* voter's candidate list.
C8_NoSelfVote ==
  /\ \A v \in DOMAIN votes : votes[v] # v
  /\ pc \in {"voting", "final_voting"} =>
       \A v \in Range(get_alive_players) :
         LET candidates == candidates_of(v)
         IN  candidates # <<>> =>
               /\ \A text \in VoteTexts :
                    /\ initial_vote_target(v, text, candidates) # v
                    /\ final_vote_target(v, text, candidates) # v
               /\ initial_vote_target(v, Exact(v), candidates) = candidates[1]
               /\ final_vote_target(v, Exact(v), candidates) = candidates[1]

\* every voter named Victor in a final vote, Victor included: his vote went
\* to Miranda, the first of his candidates, and he was eliminated
C8_Witness ==
  /\ pc = "check_day"
  /\ "Victor" \in DOMAIN votes
  /\ votes["Victor"] = "Miranda"
  /\ \A v \in DOMAIN votes \ {"Victor"} : votes[v] = "Victor"
  /\ dead_players = <<"Victor">>
  /\ answers = 1

\* C9, as stated: if the final vote of a sub-round ends in a tie for the
\* maximum count, no one is eliminated and the voting phase ends for the day.
C9_FinalTieEndsDay ==
  [][pc = "final_voting" /\ DOMAIN vote_counts' # {}
       /\ Cardinality(max_holders(vote_counts')) > 1 =>
       /\ UNCHANGED lifeVars
       /\ pc' = "check_day"]_vars

\* C10: if the initial votes of the three sub-rounds of a day each end in a
\* tie, the third tie ends the day: nobody is eliminated, no further
\* sub-round is entered, and the day's entries of the voting history are
\* exactly three tie entries numbered 1, 2, 3 in that order.
C10_ThreeTiesEndDay ==
  [][pc = "voting" /\ voting_round = MaxVotingRounds
       /\ DOMAIN vote_counts' # {}
       /\ Cardinality(max_holders(vote_counts')) > 1
       /\ Len(SelectSeq(voting_history,
                        LAMBDA e : e.round = round_number
                                     /\ e.tied_candidates # {})) = 2 =>
       LET day == SelectSeq(voting_history',
                            LAMBDA e : e.round = round_number)
       IN  /\ pc' = "check_day"
           /\ voting_round' = 0
           /\ UNCHANGED lifeVars
           /\ Len(voting_history') = Len(voting_history) + 1
           /\ SubSeq(voting_history', 1, Len(voting_history)) = voting_history
           /\ Len(day) = 3
           /\ \A i \in 1..3 :
                /\ day[i].voting_round = i
                /\ day[i].tied_candidates # {}
                /\ day[i].eliminated = None]_vars

\* the day has ended after three tied initial votes
C10_Witness ==
  /\ pc = "check_day"
  /\ Len(voting_history) = 3
  /\ \A i \in 1..3 :
       /\ voting_history[i].round = round_number
       /\ voting_history[i].voting_round = i
       /\ Cardinality(voting_history[i].tied_candidates) > 1
  /\ dead_players = <<>>

\* C11, as stated: every voting sub-round that is run appends exactly one
\* entry to the voting history: the step that ends a sub-round (an initial
\* vote that puts nobody on trial, or a final vote) leaves the history one
\* entry longer, and the entry of a sub-round with a final vote keeps its
\* trial subject, defense and final votes.
C11_EverySubRoundRecorded ==
  [][/\ (pc = "voting" /\ pc' # "defense" =>
           /\ Len(voting_history') = Len(voting_history) + 1
           /\ SubSeq(voting_history', 1, Len(voting_history)) = voting_history)
     /\ (pc = "final_voting" =>
           /\ Len(voting_history') = Len(voting_history) + 1
           /\ SubSeq(voting_history', 1, Len(voting_history)) = voting_history
           /\ voting_history'[Len(voting_history')].trial_candidate = suspect
           /\ voting_history'[Len(voting_history')].defense # None
           /\ voting_history'[Len(voting_history')].final_votes > 0)]_vars

(***************************************************************************)
(* Handlers run on their own: the state a handler is entered in and the    *)
(* replies it gets are drawn at the start, and the handler is applied.     *)
(***************************************************************************)
\* sum(f.values()) over the keys S
RECURSIVE SumOver(_, _)
SumOver(f, S) ==
  IF S = {} THEN 0
  ELSE LET x == CHOOSE y \in S : TRUE
       IN  f[x] + SumOver(f, S \ {x})

\* a state of a game of the given participants, roles and alive flags, at
\* the position `at`, with the replies that the handler will be given; in a
\* discussion phase the participants have spoken `spoken` times (one round
\* each) and the last `silent` rounds were silent
handler_state(names, r, a, given, at, spoken, silent) ==
  /\ players = names
  /\ role = r
  /\ is_alive = a
  /\ alive_players = Filter(names, {p \in Range(names) : a[p]})
  /\ dead_players = Filter(names, {p \in Range(names) : ~a[p]})
  /\ elimination_history = Filter(names, {p \in Range(names) : ~a[p]})
  /\ phase = (IF at = "discussion" THEN "day_discussion" ELSE "night")
  /\ round_number = 1
  /\ winner = None
  /\ mafia_target = None
  /\ doctor_save = None
  /\ detective_check = None
  /\ detective_results = EmptyMap
  /\ discussion_messages = <<>>
  /\ votes = EmptyMap
  /\ vote_counts = EmptyMap
  /\ suspects_on_trial = {}
  /\ voting_history = <<>>
  /\ speaking_counts = spoken
  /\ check_result = None
  /\ voting_round = 0
  /\ current_voting_round = NoVotingRound
  /\ suspect = None
  /\ total_rounds = SumOver(spoken, DOMAIN spoken)
  /\ consecutive_silent_rounds = silent
  /\ announced = <<>>
  /\ answers = 0
  /\ replies = given
  /\ future_to_agent = {}
  /\ agent_responses = <<>>
  /\ pc = at

\* the roles in list order: the killers are the first nm names
roles_in_order(names, nm) ==
  [p \in Range(names) |->
     role_list(Len(names), nm)[CHOOSE j \in 1..Len(names) : names[j] = p]]

\* _mafia_night_action on its own: any number of killers, any of them alive,
\* every reply profile of the alive killers
InitConsensus ==
  \E nm \in 1..(WinPlayers - 2) :
    LET names == Names(WinPlayers)
        killers == {names[i] : i \in 1..nm}
    IN  \E A \in SUBSET killers :
          \E given \in [A -> Range(names) \cup {Nobody, NoDecision}] :
            handler_state(names, roles_in_order(names, nm),
                          [p \in Range(names) |-> p \notin killers \ A],
                          given, "night_mafia", EmptyMap, 0)

NextConsensus == MafiaNightActionOf({replies})

ConsensusSpec == InitConsensus /\ [][NextConsensus]_vars

\* C12: the consensus target has the highest number of proposals among the
\* recorded proposals of the alive killers, and among the targets with that
\* number it is the one first proposed earliest in the killers' order; with
\* no proposal there is no target.  The target is thus a function of the
\* proposals and their order.
C12_Consensus ==
  pc = "night_doctor" =>
    LET agents == Filter(mafia_members, Range(alive_players))
        idx == {i \in 1..Len(agents) : replies[agents[i]] # NoDecision}
        count(t) == Cardinality({i \in idx : replies[agents[i]] = t})
        first(t) == CHOOSE i \in idx :
                      /\ replies[agents[i]] = t
                      /\ \A j \in idx : replies[agents[j]] = t => i <= j
        proposed == {replies[agents[i]] : i \in idx}
    IN  IF idx = {} THEN mafia_target = None
        ELSE /\ mafia_target \in proposed
             /\ \A u \in proposed :
                  /\ count(u) <= count(mafia_target)
                  /\ (count(u) = count(mafia_target) =>
                        first(mafia_target) <= first(u))

\* two targets with two proposals each: the one proposed first is chosen
C12_Witness ==
  /\ pc = "night_doctor"
  /\ DOMAIN replies = {"Miranda", "Victor", "Elena", "Rosa"}
  /\ replies["Miranda"] = "Sam" /\ replies["Victor"] = "Zoe"
  /\ replies["Elena"] = "Zoe" /\ replies["Rosa"] = "Sam"
  /\ mafia_target = "Sam"

\* C13, as stated: a step in which every decision request fails leaves the
\* participants without a decision (no killer target, no save, no
\* investigation, no utterance, no vote) and never aborts the run.
C13_FailureIsNoDecision ==
  [][(pc \in {"night_mafia", "night_doctor", "night_detective", "discussion",
              "voting", "final_voting"} /\ answers' = answers) =>
       /\ pc' # "crashed"
       /\ (pc = "night_mafia" => mafia_target' = None)
       /\ (pc = "night_doctor" => doctor_save' = None)
       /\ (pc = "night_detective" =>
             detective_check' = None /\ UNCHANGED detective_results)
       /\ (pc = "discussion" => UNCHANGED discussion_messages)
       /\ (pc \in {"voting", "final_voting"} => votes' = EmptyMap)]_vars

\* C14, as stated: a voter whose request fails has no entry in the vote map
\* and raises no candidate's count, in an initial and in a final vote.
C14_FailedVoteNotTallied ==
  [][/\ (pc = "voting" =>
           \A v \in Range(get_alive_players) :
             initial_vote_target(v, FailedVote, candidates_of(v)) = None)
     /\ (pc = "final_voting" =>
           \A v \in Range(get_alive_players) :
             final_vote_target(v, FailedVote, candidates_of(v)) = None)
     /\ (pc \in {"voting", "final_voting"} /\ answers' = answers =>
           votes' = EmptyMap /\ vote_counts' = EmptyMap)]_vars

\* C15, as stated: the killer consensus target that the night resolution
\* acts on is always a currently alive participant outside the killer
\* faction, whatever names the killers' decisions returned.
C15_TargetIsAliveVillager ==
  pc = "night_resolve" /\ mafia_target # None =>
    /\ mafia_target \in Range(alive_players)
    /\ role[mafia_target] # "mafia"

(***************************************************************************)
(* What a participant is told: base_agent.py.                              *)
(***************************************************************************)
\* a slip of get_base_context: the eliminated are listed with their roles
get_base_context_revealing(agent_name) ==
  [name |-> agent_name,
   role |-> role[agent_name],
   phase |-> phase,
   round_number |-> round_number,
   alive |-> alive_players,
   eliminated |-> [i \in 1..Len(elimination_history) |->
                     [name |-> elimination_history[i],
                      role |-> role[elimination_history[i]]]],
   mafia_team |-> IF role[agent_name] = "mafia" THEN mafia_members ELSE <<>>,
   investigation |-> IF role[agent_name] = "detective"
                     THEN detective_results ELSE EmptyMap,
   discussion |-> discussion_messages,
   voting |-> voting_history]

\* BaseAgent.get_base_context with _get_role_specific_knowledge and
\* _get_complete_game_history: the data the text is built from (the reasons
\* and utterances, free text of the LLM, are not modelled)
get_base_context(agent_name) ==
  [name |-> agent_name,
   role |-> role[agent_name],
   phase |-> phase,
   round_number |-> round_number,
   alive |-> alive_players,
   eliminated |-> [i \in 1..Len(elimination_history) |->
                     [name |-> elimination_history[i], role |-> "unknown"]],
   mafia_team |-> IF role[agent_name] = "mafia" THEN mafia_members ELSE <<>>,
   investigation |-> IF role[agent_name] = "detective"
                     THEN detective_results ELSE EmptyMap,
   discussion |-> discussion_messages,
   voting |-> voting_history]

\* the <<participant, role>> pairs that a context states
roles_carried(context) ==
  {<<context.name, context.role>>}
    \cup {<<context.eliminated[i].name, context.eliminated[i].role>> :
            i \in {j \in 1..Len(context.eliminated) :
                     context.eliminated[j].role # "unknown"}}
    \cup {<<m, "mafia">> : m \in Range(context.mafia_team)}
    \cup {<<t, context.investigation[t]>> : t \in DOMAIN context.investigation}

InitDiscussion ==
  LET names == Names(DiscPlayers)
  IN  \E spoken \in [Range(names) -> 0..MaxSpoken] :
        \E silent \in 0..(MaxSilentRounds - 1) :
          \E given \in [Range(names) ->
                          {FailedResponse}
                            \cup {Response(TRUE, u) : u \in 1..MaxUrgency}] :
            handler_state(names, roles_in_order(names, 1),
                          [p \in Range(names) |-> TRUE],
                          given, "discussion", spoken, silent)

NextDiscussion == DiscussionRoundOf({replies})

DiscussionSpec == InitDiscussion /\ [][NextDiscussion]_vars

\* C17, as stated: the participant selected to speak in a round has not
\* spoken more often in this phase than any other candidate speaker of the
\* round with the same raw urgency.
C17_FewerSpokenFirst ==
  [][pc = "discussion" /\ Len(discussion_messages') > Len(discussion_messages) =>
       (\A b \in Range(alive_players) :
          LET s == discussion_messages'[Len(discussion_messages')].player_name
          IN  (replies[b].ok /\ replies[b].speak
                 /\ replies[b].urgency = replies[s].urgency) =>
                speaking_counts[s] <= speaking_counts[b])]_vars

\* C18, as stated: a discussion phase never runs more rounds than
\* max_discussion_rounds times the number of alive participants, silent
\* rounds included (every round that does not end the phase is announced, as
\* an utterance or as a silence).
C18_RoundsBounded ==
  pc = "discussion" =>
    Cardinality({i \in 1..Len(announced) :
                   announced[i].kind \in {"says", "silence"}})
      <= max_total_rounds

\* C19, as stated: the resolution of every night makes exactly one public
\* announcement of the outcome: a named participant was eliminated, or no
\* one was.
C19_OneNightAnnouncement ==
  [][pc = "night_resolve" /\ pc' = "check_night" =>
       /\ Len(announced') = 1
       /\ announced'[1].kind \in {"night_eliminated", "no_one_eliminated"}]_vars

\* C20, as stated: in every state in which winner is set, in particular when
\* play_game has returned, the phase is GameOver.
C20_GameOverPhase ==
  winner # None => phase = "game_over"

(***************************************************************************)
(* The voting phase on its own.                                            *)
(***************************************************************************)
\* the participants of a voting phase run on its own
VotePlayers == 4

\* the voters whose returned text is drawn freely
FreeVoters == 2

\* the texts a vote request may return: exactly a participant's name (the
\* voter's own included), or a text that is no name and contains the names
\* of no, one or two participants
VoteTextsOf(names) ==
  {Exact(n) : n \in Range(names)}
    \cup {Loose(S) : S \in {T \in SUBSET Range(names) : Cardinality(T) <= 2}}

\* _run_voting_phase on its own: the discussion of the first day has used
\* its rounds, everybody is alive, the first FreeVoters voters' requests
\* return any text and the others name the first participant; every
\* sub-round gets the same texts
InitVote ==
  LET names == Names(VotePlayers)
      free == Range(SubSeq(names, 1, FreeVoters))
  IN  \E given \in [Range(names) -> VoteTextsOf(names)] :
        /\ \A v \in Range(names) \ free : given[v] = Exact(names[1])
        /\ handler_state(names, roles_in_order(names, 1),
                         [p \in Range(names) |-> TRUE], given, "discussion",
                         [p \in Range(names) |-> max_discussion_rounds], 0)

NextVote ==
  \/ BeginVoting
  \/ InitialVoteOf({replies})
  \/ DefensePhase
  \/ FinalVotingOf({replies})

VoteSpec == InitVote /\ [][NextVote]_vars

\* the candidates whose name the text contains, ignoring case
named_candidates(text, candidates) ==
  {n \in Range(candidates) : n \in text.names}

\* C21, as stated: a returned target that is not in the voter's candidate
\* list is tallied for candidate c only if c is the one and only candidate
\* whose name the text contains; with no such candidate, or more than one,
\* the vote is tallied for the first candidate of the list.  This holds for
\* the initial vote and for the final vote.
C21_OnlyUniqueMatchAccepted ==
  [][(pc \in {"voting", "final_voting"} /\ pc' # pc) =>
       \A v \in Range(alive_players) :
         ~InCandidates(replies[v], candidates_of(v)) =>
           /\ v \in DOMAIN votes'
           /\ (\A c \in Range(candidates_of(v)) :
                 named_candidates(replies[v], candidates_of(v)) = {c}
                   => votes'[v] = c)
           /\ (Cardinality(named_candidates(replies[v], candidates_of(v))) # 1
                 => votes'[v] = candidates_of(v)[1])]_vars

\* C22: the initial vote and the final vote treat a self-vote and a target
\* outside the candidate list alike: for the same voter, the same candidate
\* list and the same returned text, each of the two procedures tallies one
\* vote, for the candidate that the rule of the other procedure gives.
C22_SameHandling ==
  [][/\ (pc = "voting" /\ pc' # pc) =>
          votes' = [v \in Range(alive_players) |->
                      final_vote_target(v, replies[v], candidates_of(v))]
     /\ (pc = "final_voting" /\ pc' # pc) =>
          votes' = [v \in Range(alive_players) |->
                      initial_vote_target(v, replies[v], candidates_of(v))]
    ]_vars

\* a final vote has eliminated somebody after a voter named itself and
\* another returned a text that is no name and contains names
C22_Witness ==
  /\ pc = "check_day"
  /\ dead_players # <<>>
  /\ DOMAIN votes = Range(players)
  /\ \E v \in Range(players) : replies[v] = Exact(v)
  /\ \E v \in Range(players) : ~replies[v].exact /\ replies[v].names # {}

\* C23: winner changes from unset to a value at most once in a run and never
\* changes afterwards: once it holds a value, every later step leaves that
\* value in place.
C23_WinnerSetOnce ==
  [][winner # None => winner' = winner]_vars

\* the winner has been set and a later step (the announcement) was taken
C23_Witness ==
  winner # None /\ pc = "done"

SubmitRequests ==
  /\ pc = "discussion"
  /\ total_rounds < max_total_rounds
  /\ consecutive_silent_rounds < MaxSilentRounds
  /\ future_to_agent' = Range(alive_players)
  /\ agent_responses' = <<>>
  /\ pc' = "as_completed"
  /\ UNCHANGED <<players, role, replies, lifeVars, nightVars, voteVars,
                 discVars, phase, round_number, winner, check_result,
                 announced, answers>>

\* one iteration of `for future in as_completed(future_to_agent)`: a
\* request that raised gives (agent, None) and is not collected
CompleteRequest ==
  /\ pc = "as_completed"
  /\ \E agent \in future_to_agent :
       /\ future_to_agent' = future_to_agent \ {agent}
       /\ agent_responses' =
            (IF replies[agent].ok THEN Append(agent_responses, agent)
             ELSE agent_responses)
  /\ UNCHANGED <<players, role, replies, lifeVars, nightVars, voteVars,
                 discVars, phase, round_number, winner, pc, check_result,
                 announced, answers>>

\* twice the adjusted urgency of a collected agent
adjusted_of(agent) ==
  adjusted_urgency2(replies[agent].urgency, speaking_counts[agent])

\* a slip of the sort: the key is the adjusted urgency alone, so the stable
\* sort keeps, among equal urgencies, the agent that completed first
speaker_choices_stable(responses) ==
  LET speaking == {i \in 1..Len(responses) : replies[responses[i]].speak}
      top == {i \in speaking :
                \A j \in speaking :
                  adjusted_of(responses[j]) <= adjusted_of(responses[i])}
  IN  {responses[i] : i \in {k \in top : \A j \in top : k <= j}}

\* speaking_agents.sort(key=(adjusted urgency, random.random()),
\* reverse=True) and speaking_agents[0]: the agents that can come first
speaker_choices(responses) ==
  LET speaking == {i \in 1..Len(responses) : replies[responses[i]].speak}
      top == {i \in speaking :
                \A j \in speaking :
                  adjusted_of(responses[j]) <= adjusted_of(responses[i])}
  IN  {responses[i] : i \in top}

\* a slip of the collection: the speaker is selected as soon as a response
\* is there, the other requests still running
SelectSpeaker_early ==
  /\ pc = "as_completed"
  /\ speaker_choices(agent_responses) # {}
  /\ Answered(TRUE)
  /\ \E agent \in speaker_choices(agent_responses) :
       /\ consecutive_silent_rounds' = 0
       /\ speaking_counts' = [speaking_counts EXCEPT ![agent] = @ + 1]
       /\ discussion_messages' =
            Append(discussion_messages,
                   [player_name |-> agent, round_number |-> round_number])
       /\ total_rounds' = total_rounds + 1
       /\ announced' = Append(announced, Announcement("says", agent))
  /\ pc' = "discussion"
  /\ UNCHANGED <<playerVars, lifeVars, nightVars, voteVars, phase,
                 round_number, winner, check_result>>

\* the loop body after the executor's `with` block: every future has
\* completed
SelectSpeaker ==
  /\ pc = "as_completed"
  /\ future_to_agent = {}
  /\ Answered(speaker_choices(agent_responses) # {})
  /\ IF speaker_choices(agent_responses) = {}
     THEN /\ consecutive_silent_rounds' = consecutive_silent_rounds + 1
          /\ announced' =
               (IF consecutive_silent_rounds' < MaxSilentRounds
                THEN Append(announced, Announcement("silence", None))
                ELSE announced)
          /\ UNCHANGED <<discussion_messages, speaking_counts, total_rounds>>
     ELSE \E agent \in speaker_choices(agent_responses) :
            /\ consecutive_silent_rounds' = 0
            /\ speaking_counts' = [speaking_counts EXCEPT ![agent] = @ + 1]
            /\ discussion_messages' =
                 Append(discussion_messages,
                        [player_name |-> agent,
                         round_number |-> round_number])
            /\ total_rounds' = total_rounds + 1
            /\ announced' = Append(announced, Announcement("says", agent))
  /\ pc' = "discussion"
  /\ UNCHANGED <<playerVars, lifeVars, nightVars, voteVars, phase,
                 round_number, winner, check_result>>

\* _run_discussion_phase from its head: nobody has spoken, and every round
\* gets the same replies: a participant's request raises, fails, or returns
\* the wish to speak with an urgency of 1..MaxUrgency
InitFanIn ==
  LET names == Names(DiscPlayers)
  IN  \E given \in [Range(names) ->
                      {NoResponse, FailedResponse}
                        \cup {Response(TRUE, u) : u \in 1..MaxUrgency}] :
        handler_state(names, roles_in_order(names, 1),
                      [p \in Range(names) |-> TRUE],
                      given, "discussion", [p \in Range(names) |-> 0], 0)

NextFanIn ==
  \/ SubmitRequests
  \/ CompleteRequest
  \/ SelectSpeaker

FanInSpec == InitFanIn /\ [][NextFanIn]_vars

\* C25: in each discussion round the transcript and the speaking counts are
\* changed (the speaker is selected) only when the request of every alive
\* participant has completed: no request is outstanding, and every
\* participant whose request returned a response is among the collected.
C25_SelectionAfterBarrier ==
  [][(discussion_messages' # discussion_messages
        \/ speaking_counts' # speaking_counts) =>
       /\ future_to_agent = {}
       /\ Range(agent_responses) =
            {a \in Range(alive_players) : replies[a].ok}]_vars

\* a speaker was selected in a round in which a request raised and the two
\* others returned a response, the later participant's first
C25_Witness ==
  /\ pc = "discussion"
  /\ discussion_messages # <<>>
  /\ Len(agent_responses) = 2
  /\ \E i, j \in 1..Len(alive_players) :
       /\ i < j
       /\ agent_responses = <<alive_players[j], alive_players[i]>>

\* C26: for fixed responses of the participants in a discussion round, the
\* participants that can be selected as speaker are the same under every
\* completion order of the requests: whatever the order of the collected
\* responses, they are the participants who want to speak with the maximal
\* adjusted urgency (the choice among them is random).
C26_OrderIndependent ==
  (pc = "as_completed" /\ future_to_agent = {}) =>
    speaker_choices(agent_responses) =
      {a \in Range(alive_players) :
         /\ replies[a].ok /\ replies[a].speak
         /\ \A b \in Range(alive_players) :
              (replies[b].ok /\ replies[b].speak) =>
                adjusted_of(b) <= adjusted_of(a)}

\* all requests have completed, the last participant's first, and two
\* participants are tied at the maximal adjusted urgency
C26_Witness ==
  /\ pc = "as_completed"
  /\ future_to_agent = {}
  /\ Len(agent_responses) = Len(alive_players)
  /\ agent_responses[1] = alive_players[Len(alive_players)]
  /\ Cardinality(speaker_choices(agent_responses)) = 2
  /\ discussion_messages # <<>>

(***************************************************************************)
(* The initial vote voter by voter: the `for agent_name in alive_players`  *)
(* loop of _run_voting_phase.                                              *)
(***************************************************************************)
\* _format_voting_history: what a voter's request says of the votes cast
format_voting_history == votes

\* one iteration of the loop: the next voter's request is built from the
\* game state, its reply is normalised, and its vote is recorded
VoterTurn ==
  /\ pc = "voting"
  /\ \E i \in 1..Len(alive_players) :
       LET agent_name == alive_players[i]
           vote_target ==
             initial_vote_target(agent_name, replies[agent_name],
                                 candidates_of(agent_name))
       IN  /\ agent_name \notin DOMAIN votes
           /\ \A j \in 1..(i - 1) : alive_players[j] \in DOMAIN votes
           /\ vote_target # None
           /\ votes' = Put(votes, agent_name, vote_target)
           /\ vote_counts' =
                Put(vote_counts, vote_target,
                    IF vote_target \in DOMAIN vote_counts
                    THEN vote_counts[vote_target] + 1 ELSE 1)
  /\ UNCHANGED <<playerVars, lifeVars, nightVars, discVars, phase,
                 suspects_on_trial, voting_history, voting_round,
                 current_voting_round, suspect, round_number, winner, pc,
                 check_result, announced, answers>>

NextVoterLoop ==
  \/ BeginVoting
  \/ VoterTurn

VoterLoopSpec == InitVote /\ [][NextVoterLoop]_vars

\* C27, as stated: during a voting sub-round the game state is not changed
\* while requests are still to be made: every voter's request is built from
\* a state in which the vote map is empty, so a step that records a vote
\* starts from the empty vote map.
C27_RequestsSeeNoVotes ==
  [][(pc = "voting" /\ votes' # votes) =>
       format_voting_history = EmptyMap]_vars

(***************************************************************************)
(* A night on its own: a later round of a game that is not over, entered   *)
(* with whatever the night fields held when the night before ended.        *)
(***************************************************************************)
InitNight ==
  \E nm \in 1..num_mafia :
    LET names == Names(WinPlayers)
        r == roles_in_order(names, nm)
    IN  \E a \in [Range(names) -> BOOLEAN] :
          \E killed, saved, checked \in Range(names) \cup {None} :
            /\ players = names
            /\ role = r
            /\ is_alive = a
            /\ alive_players = Filter(names, {p \in Range(names) : a[p]})
            /\ dead_players = Filter(names, {p \in Range(names) : ~a[p]})
            /\ elimination_history = dead_players
            /\ phase = "day_voting"
            /\ round_number = 2
            /\ winner = None
            /\ check_win_condition = None
            /\ mafia_target = killed
            /\ doctor_save = saved
            /\ detective_check = checked
            /\ detective_results = EmptyMap
            /\ discussion_messages = <<>>
            /\ votes = EmptyMap
            /\ vote_counts = EmptyMap
            /\ suspects_on_trial = {}
            /\ voting_history = <<>>
            /\ speaking_counts = [p \in Range(alive_players) |-> 0]
            /\ check_result = None
            /\ voting_round = 0
            /\ current_voting_round = NoVotingRound
            /\ suspect = None
            /\ total_rounds = 0
            /\ consecutive_silent_rounds = 0
            /\ announced = <<>>
            /\ answers = 0
            /\ replies = EmptyMap
            /\ future_to_agent = {}
            /\ agent_responses = <<>>
            /\ pc = "loop"

NextNight ==
  \/ RunNightPhase
  \/ MafiaNightAction
  \/ DoctorNightAction
  \/ DetectiveNightAction
  \/ ResolveNightActions

NightSpec == InitNight /\ [][NextNight]_vars

\* C28: at the start of every night the killer consensus target, the
\* protector target and the investigator target are empty; the protector
\* target is then written only by the decision of an alive protector, and
\* stays empty when the protector decides nothing; so in a night in which
\* the protector is dead a kill of an alive participant is never cancelled,
\* whatever the protector target was when the night before ended.
C28_NightFieldsCleared ==
  /\ [](pc = "night_mafia" =>
          mafia_target = None /\ doctor_save = None /\ detective_check = None)
  /\ [][/\ doctor_save' # doctor_save =>
             \/ pc = "loop" /\ doctor_save' = None
             \/ pc = "night_doctor" /\ role_agent("doctor") # None
        /\ (pc = "night_doctor" /\ answers' = answers) => doctor_save' = None
        /\ (/\ pc = "night_resolve"
            /\ mafia_target \in Range(alive_players)
            /\ role_agent("doctor") = None) =>
             mafia_target \notin Range(alive_players')]_vars

\* the night has been resolved with the protector eliminated earlier: the
\* killers' target of this night is the last of the eliminated
C28_Witness ==
  /\ pc = "check_night"
  /\ role_agent("doctor") = None
  /\ \E p \in Range(dead_players) : role[p] = "doctor"
  /\ mafia_target # None
  /\ elimination_history[Len(elimination_history)] = mafia_target
  /\ role[mafia_target] # "doctor"

\* C29: the investigator's findings only grow: no step removes or changes an
\* entry (so their number never decreases), and every entry maps a
\* participant to the role that participant was assigned.
C29_FindingsOnlyGrow ==
  /\ [](\A p \in DOMAIN detective_results :
          p \in Range(players) /\ detective_results[p] = role[p])
  /\ [][/\ \A p \in DOMAIN detective_results :
             /\ p \in DOMAIN detective_results'
             /\ detective_results'[p] = detective_results[p]
        /\ Cardinality(DOMAIN detective_results')
             >= Cardinality(DOMAIN detective_results)]_vars

\* a second finding has been added in the second night
C29_Witness ==
  /\ round_number = 2
  /\ pc = "night_resolve"
  /\ Cardinality(DOMAIN detective_results) = 2
  /\ detective_check \in DOMAIN detective_results

\* C30, as stated: every investigation recorded in a night (a finding
\* written for the participant the investigator's decision names) is of a
\* participant who is alive at that moment and has no earlier finding, and
\* it is made only when the investigator is alive, whatever target the
\* decision returns.
C30_InvestigatesAliveUnknown ==
  [][(pc = "night_detective" /\ detective_check' \in Range(players)) =>
       /\ role_agent("detective") # None
       /\ detective_check' \in Range(alive_players)
       /\ detective_check' \notin DOMAIN detective_results]_vars

\* C31: in each discussion round with at least one speaking response the
\* selected speaker gave a speaking response, and its adjusted urgency
\* max(1, raw urgency - 0.5 x speaking count) is maximal among the round's
\* speaking candidates (compared doubled: max(2, 2 x raw - count)); a
\* participant whose response does not speak is never selected.
C31_MaximalAdjustedUrgency ==
  [][pc = "discussion" /\ Len(discussion_messages') > Len(discussion_messages) =>
       (\A b \in Range(alive_players) :
          LET s == discussion_messages'[Len(discussion_messages')].player_name
              twice(a) == IF 2 * replies[a].urgency - speaking_counts[a] > 2
                          THEN 2 * replies[a].urgency - speaking_counts[a]
                          ELSE 2
          IN  /\ replies[s].ok /\ replies[s].speak
              /\ (replies[b].ok /\ replies[b].speak) => twice(b) <= twice(s))]_vars

\* somebody who has spoken twice was selected before a candidate of a lower
\* raw urgency who has not spoken, while a third response did not speak
C31_Witness ==
  /\ discussion_messages # <<>>
  /\ \E s, b, q \in Range(alive_players) :
       /\ discussion_messages[Len(discussion_messages)].player_name = s
       /\ Len(discussion_messages) = 1
       /\ speaking_counts[s] = 3 /\ speaking_counts[b] = 0
       /\ replies[s].urgency = 2 /\ replies[b].urgency = 1
       /\ replies[b].speak /\ ~replies[q].speak

\* C32: each discussion round appends at most one utterance to the
\* transcript, tagged with the current round number, and increments only the
\* speaker's speaking count, by one; the utterances of the phase (counted by
\* the round counter, which grows with every utterance) equal the sum of the
\* speaking counts, and an utterance is added only while fewer than
\* (max rounds per participant) x (alive participants) were made.
C32_OneUtterancePerRound ==
  /\ [](pc = "discussion" =>
          total_rounds = SumOver(speaking_counts, DOMAIN speaking_counts))
  /\ [][/\ Len(discussion_messages') <= Len(discussion_messages) + 1
        /\ Len(discussion_messages') = Len(discussion_messages) =>
             /\ discussion_messages' = discussion_messages
             /\ speaking_counts' = speaking_counts
             /\ total_rounds' = total_rounds
        /\ Len(discussion_messages') = Len(discussion_messages) + 1 =>
             /\ SubSeq(discussion_messages', 1, Len(discussion_messages))
                  = discussion_messages
             /\ discussion_messages'[Len(discussion_messages')].round_number
                  = round_number
             /\ speaking_counts' =
                  [speaking_counts EXCEPT
                     ![discussion_messages'[Len(discussion_messages')].player_name]
                        = @ + 1]
             /\ total_rounds < max_discussion_rounds * Len(alive_players)
             /\ total_rounds' = total_rounds + 1]_vars

\* the last utterance that the budget allows has been made
C32_Witness ==
  /\ pc = "discussion"
  /\ Len(discussion_messages) = 1
  /\ total_rounds = max_discussion_rounds * Len(alive_players)
  /\ SumOver(speaking_counts, DOMAIN speaking_counts) = total_rounds

(***************************************************************************)
(* A discussion phase up to its end: the rounds of the loop, and the exit  *)
(* of the loop into the voting phase.                                      *)
(***************************************************************************)
NextDiscussionPhase ==
  \/ DiscussionRoundOf({replies})
  \/ BeginVoting

DiscussionPhaseSpec == InitDiscussion /\ [][NextDiscussionPhase]_vars

\* C33: a discussion phase ends as soon as 3 consecutive rounds have had no
\* speaking response: with 3 silent rounds counted no further round is run,
\* and the phase ends only then or when the round budget is used; the
\* silent-round count returns to 0 whenever someone speaks and grows by one
\* in a round without a speaker, which leaves the transcript as it is; a
\* phase in which nobody has spoken and nobody speaks ends with exactly 3
\* silent rounds counted and an empty transcript.
C33_ThreeSilentRoundsEnd ==
  /\ [](pc = "discussion" => consecutive_silent_rounds <= 3)
  /\ [][/\ (pc = "discussion" /\ pc' = "discussion") =>
             /\ consecutive_silent_rounds < 3
             /\ IF Len(discussion_messages') > Len(discussion_messages)
                THEN consecutive_silent_rounds' = 0
                ELSE /\ consecutive_silent_rounds' =
                          consecutive_silent_rounds + 1
                     /\ discussion_messages' = discussion_messages
        /\ (pc = "discussion" /\ pc' = "voting") =>
             /\ \/ consecutive_silent_rounds = 3
                \/ total_rounds >= max_discussion_rounds * Len(alive_players)
             /\ (total_rounds = 0 /\ Len(alive_players) > 0) =>
                  /\ consecutive_silent_rounds = 3
                  /\ discussion_messages = <<>>]_vars

\* a phase in which nobody spoke has ended after its third silent round
C33_Witness ==
  /\ pc = "voting"
  /\ phase = "day_voting"
  /\ discussion_messages = <<>>
  /\ \A a \in Range(alive_players) : speaking_counts[a] = 0
  /\ \A a \in Range(alive_players) : ~replies[a].speak
  /\ Len(announced) = 2

\* C34: round_number starts at 1; it changes only by the step that ends a
\* day with no winner and starts the next cycle, and then grows by exactly
\* 1; it never changes inside a night or a day, and not in the cycle in
\* which a winner is found.
C34_RoundCounter ==
  /\ round_number = 1
  /\ [][/\ round_number' # round_number =>
             /\ round_number' = round_number + 1
             /\ pc = "check_day" /\ pc' = "loop"
             /\ check_win_condition = None
             /\ winner = None /\ winner' = None
        /\ (pc = "check_day" /\ pc' = "loop") =>
             round_number' = round_number + 1
        /\ winner' # None => round_number' = round_number]_vars

\* a second cycle has been completed with no winner
C34_Witness ==
  /\ round_number = 3
  /\ pc = "loop"
  /\ winner = None

\* C35, as stated: within a day the phase follows the voting state machine:
\* DayDefense is entered only from DayVoting, after an initial vote with a
\* single maximum-holder, DayFinalVoting only from DayDefense, and every
\* initial vote of a sub-round (sub-rounds 2 and 3 included) is taken while
\* the phase is DayVoting.
C35_VotingStateMachine ==
  [][/\ (phase' = "day_defense" /\ phase # "day_defense") =>
          /\ phase = "day_voting"
          /\ Cardinality(suspects_on_trial) = 1
     /\ (phase' = "day_final_voting" /\ phase # "day_final_voting") =>
          phase = "day_defense"
     /\ (pc = "voting" /\ pc' # "voting") => phase = "day_voting"
     /\ (pc = "voting" /\ answers' # answers) => phase = "day_voting"]_vars

\* C36: in every reachable state the four records of liveness agree: a name
\* is in alive_players if and only if that player's is_alive flag is true,
\* dead_players equals elimination_history, and both contain exactly the
\* players whose flag is false, each exactly once.
C36_LivenessRecordsAgree ==
  /\ \A p \in Range(players) : p \in Range(alive_players) <=> is_alive[p]
  /\ Range(alive_players) \subseteq Range(players)
  /\ dead_players = elimination_history
  /\ Range(elimination_history) = {p \in Range(players) : ~is_alive[p]}
  /\ Len(elimination_history)
       = Cardinality({p \in Range(players) : ~is_alive[p]})
  /\ Len(alive_players)
       = Cardinality({p \in Range(players) : is_alive[p]})

\* a participant was eliminated by the day's final vote
C36_Witness ==
  /\ pc = "check_day"
  /\ voting_history # <<>>
  /\ voting_history[Len(voting_history)].eliminated # None
  /\ elimination_history =
       <<voting_history[Len(voting_history)].eliminated>>
  /\ ~is_alive[elimination_history[1]]

\* C37: whenever a vote is requested, in an initial or a final vote of any
\* sub-round, at least 3 participants are alive, so every voter's candidate
\* list (the alive participants other than the voter) is non-empty and its
\* first element, the fallback, is defined.
C37_VotersHaveCandidates ==
  pc \in {"voting", "defense", "final_voting"} =>
    /\ Len(alive_players) >= 3
    /\ \A v \in Range(alive_players) :
         /\ candidates_of(v) # <<>>
         /\ candidates_of(v)[1] \in Range(alive_players) \ {v}

\* a final vote is due with exactly three participants alive
C37_Witness ==
  /\ pc = "final_voting"
  /\ Len(alive_players) = 3

\* C38, as stated: when the day-start announcement tells the players that a
\* named participant was eliminated last night, that participant was
\* eliminated in the night just before (the night's own announcement named
\* it), not by an earlier day vote or in an earlier night.
C38_LastNightIsLastNight ==
  \A i \in 1..Len(announced) :
    announced[i].kind = "last_night_eliminated" =>
      \E j \in 1..(i - 1) :
        announced[j] = Announcement("night_eliminated", announced[i].name)

\* _resolve_night_actions: what _player_announce prints for a consensus
\* target and a protector target, when the elimination does not raise
night_announcements(target, save) ==
  IF target # None
  THEN IF target = save
       THEN <<Announcement("no_one_eliminated", None)>>
       ELSE <<Announcement("night_eliminated", target)>>
  ELSE <<>>

\* C39, as stated: the public announcements of a night do not reveal whether
\* the killers attempted a kill: what is announced in a night that ends with
\* nobody eliminated is what a night with a kill cancelled by the
\* protector's save announces, and also what a night with no killer
\* consensus target announces.
C39_AttemptNotRevealed ==
  [][(/\ pc = "night_resolve" /\ pc' = "check_night"
      /\ alive_players' = alive_players
      /\ (mafia_target = None \/ mafia_target = doctor_save)) =>
       /\ announced' = night_announcements(mafia_target, doctor_save)
       /\ \A p \in Range(alive_players) :
            announced' = night_announcements(p, p)
       /\ announced' = night_announcements(None, doctor_save)]_vars

\* C40, as stated, in the form that a finite run refutes: provided every
\* decision request returns, there is no infinite sequence of night+day
\* cycles in which no win check returns non-none, because every cycle that
\* ends with no winner has eliminated a participant: when cycle number r
\* ends and the next begins, at least r participants have been eliminated.
\* (A cycle that eliminates nobody leaves the alive flags as they were, and
\* the same decisions can be returned again in every later cycle.)
C40_EveryCycleEliminates ==
  [][(pc = "check_day" /\ pc' = "loop") =>
       Len(dead_players) >= round_number]_vars

====
